---- MODULE Spec2Model ----
(***************************************************************************)
(* Vehicle motion simulator of the shuttle-service application.            *)
(*                                                                         *)
(* The simulator exists three times in the repository:                     *)
(*   "server"  the push server            (src/unnamed/part_002)           *)
(*   "client"  the client vehicle service (src/unnamed/part_003)           *)
(*   "socket"  the socket utility / mock  (src/utils/socketUtils.js)       *)
(* Each copy keeps two module-level variables, simulatedVehicles and       *)
(* simulationInterval, and an asynchronous startVehicleSimulation that     *)
(* awaits the route resolution of every vehicle before it binds the        *)
(* collection and creates the interval timer.                              *)
(* The model also covers the socket utility's connection handling          *)
(* (connectToSocket with its fallback URLs, the subscribe functions), the  *)
(* route cache of the map service (src/unnamed/part_004) and the haversine *)
(* distance of the location utilities (src/utils/fontUtils.js).            *)
(*                                                                         *)
(* Encoding of values                                                      *)
(*   - a waypoint is a pair <<latitude, longitude>> of grid integers;      *)
(*   - a location is a pair in units of 1/LocScale(m) of a grid step, so   *)
(*     that the linear interpolation of a tick is exact;                   *)
(*   - progress is counted in ticks' increments (0.01 on the server and    *)
(*     the client, 0.0005 in the socket utility); IEEE-754 accumulation    *)
(*     of 0.01 first reaches a value >= 1 on the 100th addition and of     *)
(*     0.0005 on the 2001st addition;                                      *)
(*   - JavaScript's undefined and NaN are the numbers Undefined and NaN,   *)
(*     outside the range of every numeric field;                           *)
(*   - an array index i of the source is the index i + 1 of a sequence.    *)
(***************************************************************************)
EXTENDS Integers, Sequences, FiniteSets, TLC

\* ------------------------------------------------------------------ bounds
MaxStarts == 2
NumVehicles == 2
OverlapVehicles == 1
MaxRouteLen == 3
NumClients == 2
MaxTicks == 2
MaxSnapshots == 1
MaxSockets == 2
MaxChain == 9

\* --------------------------------------------------------- program values
NullHandle == 0
Undefined == -2
NaN == -1
PROGRESS_STEP == 1
FullProgress == 100
MockFullProgress == 2001
MockLocScale == 2000

\* FALLBACK_URLS.length
NumFallbacks == 7

\* a vehicle object without a location property: vehicle.location is undefined
NoLocation == <<Undefined>>

Modules == {"server", "client", "socket"}
Clients == 1..NumClients

VARIABLES
  module,              \* which copy of the simulator this run is about
  simulatedVehicles,   \* module-level collection
  simulationInterval,  \* module-level timer handle, NullHandle when none
  timers,              \* interval timers that setInterval created and clearInterval has not cancelled
  calls,               \* the start calls made so far: callback and vehicles argument
  pending,             \* start calls suspended at await Promise.all: per vehicle <<>> or <<result>>
  simOwner,            \* the start call whose Promise.all result simulatedVehicles is bound to
  vehicleFixedRoutes,  \* mapService route cache, per vehicle id <<>> or <<coordinates>>
  ticks,               \* interval callbacks run on the current collection (saturating)
  lastUpdate,          \* <<>> or <<the latest onUpdate invocation>>
  conn,                \* server: per client socket "idle", "connected" or "gone"
  clientData,          \* server: per connection closure state; vehicles holds the ids of the array's vehicles
  sentLocation,        \* server: clients whose userLocation handler has run
  lastCall,            \* the latest call made on the simulator: "none", "start" or "stop"
  delivered,           \* the collection a caller kept after it was handed it: per vehicle object, its
                       \* fields then and now, and whether the simulator still holds the object
  snapshot,            \* client: the arrays getSimulatedVehicles returned, latest last: per element,
                       \* whether it is still the object the simulator holds at that index
  useMockData,         \* socket utility: FEATURES.USE_MOCK_DATA
  sockets,             \* socket utility: the socket objects created so far, mock or real
  socketInstance,      \* socket utility: NullHandle or the index in sockets of the module's socket
  connectionAttempts,  \* socket utility: module-level counter
  retries,             \* socket utility: pending setTimeout(connectToSocket) callbacks
  initTimer,           \* socket utility: the module initialisation's setTimeout is pending
  coord1,              \* geodesy helpers: first coordinate of the pair being measured
  coord2,              \* geodesy helpers: second coordinate of the pair being measured
  distance             \* geodesy helpers: what calculateDistance returned, per order of the arguments

vars == <<module, simulatedVehicles, simulationInterval, timers, calls, pending,
          simOwner, vehicleFixedRoutes, ticks, lastUpdate, conn, clientData, sentLocation,
          lastCall, snapshot, delivered, useMockData, sockets, socketInstance, connectionAttempts,
          retries, initTimer, coord1, coord2, distance>>

geoVars == <<coord1, coord2, distance>>

socketVars == <<useMockData, sockets, socketInstance, connectionAttempts, retries, initTimer>>

simVars == <<simulatedVehicles, simulationInterval, timers, simOwner, ticks>>
serverVars == <<conn, clientData, sentLocation>>

\* ---------------------------------------------------------------- helpers
LocScale(m) == IF m = "socket" THEN MockLocScale ELSE FullProgress

Scaled(m, p) == <<p[1] * LocScale(m), p[2] * LocScale(m)>>

\* the i-th waypoint of the road the directions provider knows: a staircase
\* (0,0), (0,1), (1,1), (1,2), ...
WP(i) == <<(i - 1) \div 2, i \div 2>>

RoadPrefix(n) == [i \in 1..n |-> WP(i)]

\* BUS_ROUTES: predefined start and end coordinates per route
BUS_ROUTES(i) == [startCoordinates |-> <<10 * (i + 1), 0>>,
                 endCoordinates |-> <<10 * (i + 1), 1>>]

\* Math.floor(Math.random() * 360) of the generated heading: one draw
InitialHeading == 45

\* Math.random() offsets of the generated start location, in location units
RandomOffsets == {1}

\* what fetchDirections can return: null, or route information whose
\* coordinates are a decoded polyline of any length
DirectionsResults ==
  {[ok |-> FALSE, coordinates |-> <<>>]} \cup
  {[ok |-> TRUE, coordinates |-> RoadPrefix(n)] : n \in 0..MaxRouteLen}

\* calculateBearing on the grid, in whole degrees; every segment the model
\* travels is parallel to an axis; 0 when a point is undefined (<<>>)
calculateBearing(a, b) ==
  IF a = <<>> \/ b = <<>> THEN 0
  ELSE IF b[1] > a[1] THEN 0
  ELSE IF b[1] < a[1] THEN 180
  ELSE IF b[2] > a[2] THEN 90
  ELSE IF b[2] < a[2] THEN 270
  ELSE 0

\* ------------------------------------------------------- geodesy helpers
\* Angles in radians are counted in units of pi/360, distances in whole
\* kilometres, and the values of Math.sin and Math.cos in units of
\* 1/TrigScale.
TrigScale == 10000

\* Math.PI in units of 1/TrigScale
PI == 31416

\* Math.sin of 0..90 degrees
SinTable ==
  <<
     0, 175, 349, 523, 698, 872, 1045, 1219, 1392, 1564,
     1736, 1908, 2079, 2250, 2419, 2588, 2756, 2924, 3090, 3256,
     3420, 3584, 3746, 3907, 4067, 4226, 4384, 4540, 4695, 4848,
     5000, 5150, 5299, 5446, 5592, 5736, 5878, 6018, 6157, 6293,
     6428, 6561, 6691, 6820, 6947, 7071, 7193, 7314, 7431, 7547,
     7660, 7771, 7880, 7986, 8090, 8192, 8290, 8387, 8480, 8572,
     8660, 8746, 8829, 8910, 8988, 9063, 9135, 9205, 9272, 9336,
     9397, 9455, 9511, 9563, 9613, 9659, 9703, 9744, 9781, 9816,
     9848, 9877, 9903, 9925, 9945, 9962, 9976, 9986, 9994, 9998,
     10000
  >>

\* toRad: degrees * Math.PI / 180
toRad(degrees) == degrees * 2

\* Math.sin of an angle that is a whole number of degrees
Sin(x) ==
  LET r == (x \div 2) % 360
  IN IF r <= 90 THEN SinTable[r + 1]
     ELSE IF r <= 180 THEN SinTable[181 - r]
     ELSE IF r <= 270 THEN 0 - SinTable[r - 179]
     ELSE 0 - SinTable[361 - r]

\* Math.cos
Cos(x) == Sin(x + 180)

RECURSIVE SqrtBetween(_, _, _)
SqrtBetween(n, lo, hi) ==
  IF hi - lo <= 1 THEN lo
  ELSE LET mid == (lo + hi) \div 2
       IN IF mid * mid <= n THEN SqrtBetween(n, mid, hi) ELSE SqrtBetween(n, lo, mid)

\* Math.sqrt of a value in units of 1/TrigScale; NaN below zero
Sqrt(x) == IF x < 0 THEN NaN ELSE SqrtBetween(x * TrigScale, 0, 2 * TrigScale)

\* Math.atan2(y, x) for y, x >= 0: the angle whose tangent is y / x, to the
\* whole degree below; NaN when an argument is
Atan2(y, x) ==
  IF y = NaN \/ x = NaN THEN NaN
  ELSE IF y = 0 THEN 0
  ELSE LET below == {d \in 0..90 : Sin(toRad(d)) * x <= Cos(toRad(d)) * y}
       IN toRad(CHOOSE d \in below : \A e \in below : e <= d)

\* the product of two values in units of 1/TrigScale, rounded towards zero
\* (the rounding of a floating-point product does not depend on the signs)
Times(x, y) ==
  LET p == x * y
  IN IF p >= 0 THEN p \div TrigScale ELSE 0 - ((0 - p) \div TrigScale)

\* the haversine a of calculateDistance with the first coordinate's latitude
\* used for both cosines
haversine_FirstLatitude(c1, c2) ==
  LET dLat == toRad(c2[1] - c1[1])
      dLon == toRad(c2[2] - c1[2])
  IN Times(Sin(dLat \div 2), Sin(dLat \div 2)) +
     Times(Times(Times(Cos(toRad(c1[1])), Cos(toRad(c1[1]))), Sin(dLon \div 2)), Sin(dLon \div 2))

\* the haversine a of calculateDistance, in units of 1/TrigScale
haversine(c1, c2) ==
  LET dLat == toRad(c2[1] - c1[1])
      dLon == toRad(c2[2] - c1[2])
  IN Times(Sin(dLat \div 2), Sin(dLat \div 2)) +
     Times(Times(Times(Cos(toRad(c1[1])), Cos(toRad(c2[1]))), Sin(dLon \div 2)), Sin(dLon \div 2))

\* calculateDistance: 0 when a coordinate is missing, else R * c with
\* c = 2 * atan2(sqrt(a), sqrt(1 - a))
calculateDistance(c1, c2) ==
  IF c1 = NoLocation \/ c2 = NoLocation THEN 0
  ELSE LET R == 6371
           a == haversine(c1, c2)
           half == Atan2(Sqrt(a), Sqrt(TrigScale - a))
           c == (2 * half * PI) \div 360
       IN IF half = NaN THEN NaN ELSE (R * c) \div TrigScale

Reverse(s) == [i \in 1..Len(s) |-> s[Len(s) + 1 - i]]

Interpolate(m, cur, nxt, p) ==
  <<cur[1] * LocScale(m) + (nxt[1] - cur[1]) * p,
    cur[2] * LocScale(m) + (nxt[2] - cur[2]) * p>>

\* { ...location }: the copy of a location object; spreading undefined gives
\* an object without coordinates
Spread(location) == IF location = NoLocation THEN <<>> ELSE location

\* generateVehicleRoute's test of the vehicle's location:
\*   !vehicle.location || !vehicle.location.latitude || !vehicle.location.longitude
\* rejects a missing location, a location without coordinates, and a
\* latitude or longitude that is 0
ValidLocation(vehicle) ==
  /\ Len(vehicle.location) = 2
  /\ vehicle.location[1] # 0
  /\ vehicle.location[2] # 0

\* ------------------------------------------------------ vehicle generation
\* generateVehicles / generateMockVehicles: vehicle i runs on BUS_ROUTES[i]
\* and starts near that route's start coordinates
generateVehicles(m, count, off) ==
  [i \in 1..count |->
     [id |-> i - 1,
      routeId |-> i - 1,
      heading |-> InitialHeading,
      location |-> <<Scaled(m, BUS_ROUTES(i - 1).startCoordinates)[1] + off[i],
                     Scaled(m, BUS_ROUTES(i - 1).startCoordinates)[2] + off[i]>>]]

\* the vehicles arguments a start call is given: up to max generated vehicles
Fleets(m, max) ==
  UNION {{generateVehicles(m, n, off) : off \in [1..n -> RandomOffsets]} : n \in 1..max}

\* the location a caller's vehicle object can carry: the generated one, one
\* on the equator (latitude 0), or none
LocationKinds == {"generated", "zeroLatitude", "missing"}

WithLocation(vehicle, kind) ==
  [vehicle EXCEPT !.location = IF kind = "missing" THEN NoLocation
                               ELSE IF kind = "zeroLatitude" THEN <<0, @[2]>>
                               ELSE @]

\* the vehicles arguments of the exported startVehicleSimulation: vehicle
\* objects of the caller's making, up to max of them
CallerFleets(m, max) ==
  UNION {{[i \in 1..Len(fleet) |-> WithLocation(fleet[i], kinds[i])] :
             kinds \in [1..Len(fleet) -> LocationKinds]} : fleet \in Fleets(m, max)}

\* the direct two-point line between the predefined endpoints
DirectLine(vehicle) ==
  <<BUS_ROUTES(vehicle.routeId).startCoordinates, BUS_ROUTES(vehicle.routeId).endCoordinates>>

\* variant: a failed lookup leaves the vehicle without waypoints
RouteCoordinates_NoFallback(vehicle, r) ==
  IF r.ok /\ Len(r.coordinates) > 0 THEN r.coordinates ELSE <<>>

\* the coordinates chosen from a directions result, or the direct-line fallback
RouteCoordinates(vehicle, r) ==
  IF r.ok /\ Len(r.coordinates) > 0 THEN r.coordinates ELSE DirectLine(vehicle)

\* server: the record a vehicle promise resolves to
ServerVehicle(vehicle, r) ==
  [id |-> vehicle.id,
   routeId |-> vehicle.routeId,
   location |-> vehicle.location,
   originalLocation |-> Spread(vehicle.location),
   heading |-> vehicle.heading,
   routeCoordinates |-> RouteCoordinates(vehicle, r),
   fixedRoute |-> RouteCoordinates(vehicle, r),
   fixedRouteIsNull |-> FALSE,
   currentRouteIndex |-> 0,
   direction |-> 1,
   progress |-> 0]

\* client: the forward route followed by its reverse without the turning point
BidirectionalRoute(coordinates) ==
  coordinates \o SubSeq(Reverse(coordinates), 2, Len(coordinates))

\* client: the record a vehicle promise resolves to
ClientVehicle(vehicle, coordinates) ==
  [id |-> vehicle.id,
   routeId |-> vehicle.routeId,
   location |-> vehicle.location,
   originalLocation |-> Spread(vehicle.location),
   heading |-> vehicle.heading,
   routeCoordinates |-> coordinates,
   fixedRoute |-> BidirectionalRoute(coordinates),
   fixedRouteIsNull |-> FALSE,
   currentRouteIndex |-> 0,
   direction |-> 1,
   progress |-> 0]

\* socket utility: the record a vehicle promise resolves to; it has neither a
\* direction nor a progress field
SocketVehicle(vehicle, coordinates) ==
  [id |-> vehicle.id,
   routeId |-> vehicle.routeId,
   location |-> vehicle.location,
   originalLocation |-> Spread(vehicle.location),
   heading |-> vehicle.heading,
   routeCoordinates |-> coordinates,
   fixedRoute |-> coordinates,
   fixedRouteIsNull |-> FALSE,
   currentRouteIndex |-> 0,
   direction |-> Undefined,
   progress |-> Undefined]

\* the record built from the coordinates generateVehicleRoute returned
RoutedVehicle(m, vehicle, coordinates) ==
  IF m = "client" THEN ClientVehicle(vehicle, coordinates) ELSE SocketVehicle(vehicle, coordinates)

\* ------------------------------------------------------------ tick handlers
\* variant: a route of one waypoint counts as a route
HasFixedRoute_NonEmpty(vehicle) == ~vehicle.fixedRouteIsNull /\ Len(vehicle.fixedRoute) > 0

\* if (vehicle.fixedRoute && vehicle.fixedRoute.length > 1)
HasFixedRoute(vehicle) == ~vehicle.fixedRouteIsNull /\ Len(vehicle.fixedRoute) > 1

\* variant: the first waypoint is out of bounds
InBounds_Positive(route, nextIndex) == nextIndex > 0 /\ nextIndex < Len(route)

\* if (nextIndex >= 0 && nextIndex < route.length)
InBounds(route, nextIndex) == nextIndex >= 0 /\ nextIndex < Len(route)

\* variant: the comparison is strict
ReachedNext_Strict(progress) == progress > FullProgress

\* if (vehicle.progress >= 1), on the incremented progress
ReachedNext(progress) == progress >= FullProgress

\* variant: only the far end of the route is tested
AtEnd_FarEndOnly(route, index) == index >= Len(route) - 1

\* if (vehicle.currentRouteIndex >= route.length - 1 || vehicle.currentRouteIndex <= 0)
AtEnd(route, index) == index >= Len(route) - 1 \/ index <= 0

\* variant: the far end is taken to be route.length
TurnIndex_RouteLength(route, direction) == IF direction = -1 THEN Len(route) ELSE 0

\* the index the vehicle is put on after its direction was reversed
TurnIndex(route, direction) == IF direction = -1 THEN Len(route) - 1 ELSE 0

\* variant: the waypoint before the index is read
ExactLocation_Previous(m, route, index) ==
  IF index \in DOMAIN route THEN Scaled(m, route[index]) ELSE <<>>

\* { ...route[index] }: the waypoint itself, an object without coordinates
\* when the index is outside the array
ExactLocation(m, route, index) ==
  IF index + 1 \in DOMAIN route THEN Scaled(m, route[index + 1]) ELSE <<>>

\* route[index]: the waypoint, undefined (<<>>) outside the array
PointAt(route, index) == IF index + 1 \in DOMAIN route THEN route[index + 1] ELSE <<>>

\* server and client: the map callback throws a TypeError when it reads
\* currentPoint.latitude of an undefined currentPoint, which it does when
\* the next index is inside the route, the current index is not, and the
\* incremented progress is below 1
VehicleThrows(vehicle) ==
  /\ HasFixedRoute(vehicle)
  /\ InBounds(vehicle.fixedRoute, vehicle.currentRouteIndex + vehicle.direction)
  /\ PointAt(vehicle.fixedRoute, vehicle.currentRouteIndex) = <<>>
  /\ ~ReachedNext(vehicle.progress + PROGRESS_STEP)

\* server and client: the map callback of the interval handler, one vehicle
\* on which it does not throw
TickVehicle(m, vehicle) ==
  IF HasFixedRoute(vehicle)
  THEN LET route == vehicle.fixedRoute
           currentPoint == PointAt(route, vehicle.currentRouteIndex)
           nextIndex == vehicle.currentRouteIndex + vehicle.direction
       IN IF InBounds(route, nextIndex)
          THEN LET nextPoint == route[nextIndex + 1]
                   bearing == calculateBearing(currentPoint, nextPoint)
                   progress == vehicle.progress + PROGRESS_STEP
               IN IF ReachedNext(progress)
                  THEN LET moved == vehicle.currentRouteIndex + vehicle.direction
                           atEnd == AtEnd(route, moved)
                           direction == IF atEnd THEN vehicle.direction * (-1) ELSE vehicle.direction
                           index == IF atEnd THEN TurnIndex(route, direction) ELSE moved
                       IN [vehicle EXCEPT !.progress = 0,
                                          !.currentRouteIndex = index,
                                          !.direction = direction,
                                          !.location = ExactLocation(m, route, index),
                                          !.heading = bearing]
                  ELSE [vehicle EXCEPT !.progress = progress,
                                       !.location = Interpolate(m, currentPoint, nextPoint, progress),
                                       !.heading = bearing]
          ELSE IF m = "client"
               THEN [vehicle EXCEPT !.direction = vehicle.direction * (-1),
                                    !.currentRouteIndex =
                                       IF vehicle.direction = 1 THEN Len(route) - 1 ELSE 0,
                                    !.progress = 0]
               ELSE vehicle
  ELSE vehicle

\* JavaScript's  x + step  on a value that may be undefined or NaN
AddStep(x) == IF x = Undefined \/ x = NaN THEN NaN ELSE x + PROGRESS_STEP

\* socket utility: the map callback of startSimulationInterval, one vehicle
SocketTickVehicle(vehicle) ==
  IF HasFixedRoute(vehicle)
  THEN LET route == vehicle.fixedRoute
       IN IF vehicle.currentRouteIndex >= Len(route) - 1
          THEN [vehicle EXCEPT !.currentRouteIndex = 0,
                               !.location = vehicle.originalLocation,
                               !.heading = 0]
          ELSE LET currentPoint == route[vehicle.currentRouteIndex + 1]
                   nextPoint == route[vehicle.currentRouteIndex + 2]
                   bearing == calculateBearing(currentPoint, nextPoint)
                   added == AddStep(vehicle.progress)
                   reached == added # NaN /\ added >= MockFullProgress
                   progress == IF reached THEN 0 ELSE added
               IN [vehicle EXCEPT !.progress = progress,
                                  !.currentRouteIndex = IF reached THEN @ + 1 ELSE @,
                                  !.location = IF progress = NaN
                                               THEN <<NaN, NaN>>
                                               ELSE Interpolate("socket", currentPoint, nextPoint, progress),
                                  !.heading = bearing]
  ELSE vehicle

\* variant: only the first vehicle of the collection is advanced
TickAll_FirstOnly(m, vehicles) ==
  [i \in 1..Len(vehicles) |->
     IF i > 1 THEN vehicles[i]
     ELSE IF m = "socket" THEN SocketTickVehicle(vehicles[i]) ELSE TickVehicle(m, vehicles[i])]

\* the collection one run of the interval handler produces
TickAll(m, vehicles) ==
  [i \in 1..Len(vehicles) |->
     IF m = "socket" THEN SocketTickVehicle(vehicles[i]) ELSE TickVehicle(m, vehicles[i])]

\* server and client: the vehicles on which the map callback throws
Throwers(m, vehicles) ==
  IF m = "socket" THEN {} ELSE {i \in 1..Len(vehicles) : VehicleThrows(vehicles[i])}

\* server and client: the vehicle object after the map callback has run on
\* it: progress, currentRouteIndex and direction are assigned on the object
\* itself before the callback returns a new object
InPlace(m, vehicle) ==
  IF HasFixedRoute(vehicle)
     /\ InBounds(vehicle.fixedRoute, vehicle.currentRouteIndex + vehicle.direction)
  THEN IF VehicleThrows(vehicle)
       THEN [vehicle EXCEPT !.progress = vehicle.progress + PROGRESS_STEP]
       ELSE [vehicle EXCEPT !.progress = TickVehicle(m, vehicle).progress,
                            !.currentRouteIndex = TickVehicle(m, vehicle).currentRouteIndex,
                            !.direction = TickVehicle(m, vehicle).direction]
  ELSE vehicle

\* server and client: the collection after a run of the interval handler
\* whose map callback threw on vehicle j: the assignment to
\* simulatedVehicles did not happen, the objects up to j were changed
TickAborted(m, vehicles, j) ==
  [i \in 1..Len(vehicles) |-> IF i <= j THEN InPlace(m, vehicles[i]) ELSE vehicles[i]]

\* client: the log statement after the map reads v.location.latitude of
\* every vehicle and throws on a vehicle without a location
LogThrows(m, vehicles) ==
  m = "client" /\ \E i \in 1..Len(vehicles) : vehicles[i].location = NoLocation

\* the kept collection after the simulator has replaced its collection:
\* none of its objects is held by the simulator any more
Released == [i \in 1..Len(delivered) |-> [delivered[i] EXCEPT !.held = FALSE]]

\* socket utility: the vehicle object after the map callback has run on it:
\* the end-of-route branch assigns currentRouteIndex and location on the
\* object itself, the other branch progress and currentRouteIndex
SocketInPlace(vehicle) ==
  IF HasFixedRoute(vehicle)
  THEN IF vehicle.currentRouteIndex >= Len(vehicle.fixedRoute) - 1
       THEN [vehicle EXCEPT !.currentRouteIndex = 0,
                            !.location = vehicle.originalLocation]
       ELSE [vehicle EXCEPT !.progress = SocketTickVehicle(vehicle).progress,
                            !.currentRouteIndex = SocketTickVehicle(vehicle).currentRouteIndex]
  ELSE vehicle

\* the kept collection after a run of the interval handler whose map
\* callback ran on the first upTo vehicles: an object the simulator held was
\* assigned on, and stays the simulator's when the run was aborted or the
\* callback returned the object itself
DeliveredAfter(upTo, aborted) ==
  [i \in 1..Len(delivered) |->
     IF delivered[i].held /\ i <= upTo
     THEN [delivered[i] EXCEPT
             !.now = IF module = "socket" THEN SocketInPlace(@) ELSE InPlace(module, @),
             !.held = aborted \/ ~HasFixedRoute(simulatedVehicles[i])]
     ELSE delivered[i]]

\* --------------------------------------------------------------- the state
TickCap == MaxRouteLen * FullProgress

VehicleIds == 0..((IF NumVehicles > OverlapVehicles THEN NumVehicles ELSE OverlapVehicles) - 1)

\* the simulator's module-level state after the module is loaded
InitSimulator ==
  /\ simulatedVehicles = <<>>
  /\ simulationInterval = NullHandle
  /\ timers = {}
  /\ calls = <<>>
  /\ pending = <<>>
  /\ simOwner = NullHandle
  /\ vehicleFixedRoutes = [id \in VehicleIds |-> <<>>]
  /\ ticks = 0
  /\ lastUpdate = <<>>
  /\ conn = [c \in Clients |-> "idle"]
  /\ clientData = [c \in Clients |-> [vehicles |-> <<>>, simulationInterval |-> NullHandle]]
  /\ sentLocation = {}
  /\ lastCall = "none"
  /\ snapshot = <<>>
  /\ delivered = <<>>

\* createMockSocket(): the mock socket object, connected from its creation
createMockSocket ==
  [mock |-> TRUE, url |-> 0, state |-> "connected", listening |-> FALSE, statusListening |-> FALSE]

\* the socket utility's module-level state after the module is loaded
InitSocketUtils ==
  /\ sockets = IF useMockData THEN <<createMockSocket>> ELSE <<>>
  /\ socketInstance = IF useMockData THEN 1 ELSE NullHandle
  /\ connectionAttempts = 0
  /\ retries = 0
  /\ initTimer = useMockData

\* no pair of coordinates is being measured
InitGeo ==
  /\ coord1 = NoLocation
  /\ coord2 = NoLocation
  /\ distance = [order \in {"ab", "ba", "aa"} |-> Undefined]

\* the configuration of the repository: USE_MOCK_DATA is false
Init ==
  /\ module \in Modules
  /\ InitSimulator
  /\ useMockData = FALSE
  /\ InitSocketUtils
  /\ InitGeo

\* the ids of an array of vehicles, in order
Ids(vehicles) == [i \in 1..Len(vehicles) |-> vehicles[i].id]

\* variant: the handle is not reset after clearInterval
StopEffect_KeepsHandle ==
  /\ timers' = IF simulationInterval # NullHandle THEN timers \ {simulationInterval} ELSE timers
  /\ simulationInterval' = simulationInterval
  /\ simulatedVehicles' = <<>>
  /\ simOwner' = NullHandle
  /\ ticks' = 0

\* stopVehicleSimulation, as a relation on the module-level state
StopEffect ==
  /\ timers' = IF simulationInterval # NullHandle THEN timers \ {simulationInterval} ELSE timers
  /\ simulationInterval' = NullHandle
  /\ simulatedVehicles' = <<>>
  /\ simOwner' = NullHandle
  /\ ticks' = 0

\* what a vehicle's promise holds when startVehicleSimulation suspends:
\* generateVehicleRoute answers from vehicleFixedRoutes without a lookup
\* when it has a route for the id; the server has no such cache
PromiseAtStart(vehicle) ==
  IF module = "server" THEN <<>>
  ELSE IF ~ValidLocation(vehicle) THEN <<RoutedVehicle(module, vehicle, <<>>)>>
  ELSE IF vehicleFixedRoutes[vehicle.id] # <<>>
       THEN <<RoutedVehicle(module, vehicle, vehicleFixedRoutes[vehicle.id][1])>>
       ELSE <<>>

\* the returned array after the simulator has replaced its collection: none
\* of its elements is an object of the simulator any more
Detached == [i \in 1..Len(snapshot) |-> [j \in 1..Len(snapshot[i]) |-> FALSE]]

\* the returned array after a run of the interval handler that replaced the
\* collection by  produced : an element stays the simulator's object when
\* the map callback returned the vehicle object itself
Retained(vehicles) ==
  [i \in 1..Len(snapshot) |->
     [j \in 1..Len(snapshot[i]) |->
        snapshot[i][j] /\ j <= Len(vehicles) /\ ~HasFixedRoute(vehicles[j])]]

\* startVehicleSimulation up to  await Promise.all(vehiclePromises)
BeginStart(client, vehicles) ==
  /\ Len(calls) < MaxStarts
  /\ StopEffect
  /\ calls' = Append(calls, [client |-> client, vehicles |-> vehicles])
  /\ pending' = pending @@ ((Len(calls) + 1) :> [i \in 1..Len(vehicles) |-> PromiseAtStart(vehicles[i])])
  /\ lastCall' = "start"
  /\ snapshot' = Detached
  /\ delivered' = Released
  /\ UNCHANGED <<module, vehicleFixedRoutes, lastUpdate>>
  /\ UNCHANGED socketVars
  /\ UNCHANGED geoVars

\* a caller starts a simulation (client vehicle service, socket utility, or
\* the server's function called directly) for up to max vehicles
StartSimulation(max) ==
  /\ \E vehicles \in Fleets(module, max) : BeginStart(0, vehicles)
  /\ UNCHANGED serverVars

\* a caller stops the simulation
StopVehicleSimulation ==
  /\ StopEffect
  /\ lastCall' = "stop"
  /\ snapshot' = Detached
  /\ delivered' = Released
  /\ UNCHANGED <<module, calls, pending, vehicleFixedRoutes, lastUpdate>>
  /\ UNCHANGED serverVars
  /\ UNCHANGED socketVars
  /\ UNCHANGED geoVars

\* the directions lookup of vehicle i of start call k returns r and the
\* vehicle's promise resolves
SettleRoute(k, i, r) ==
  /\ k \in DOMAIN pending
  /\ i \in 1..Len(pending[k])
  /\ pending[k][i] = <<>>
  /\ LET vehicle == calls[k].vehicles[i]
         coordinates == RouteCoordinates(vehicle, r)
     IN IF module = "server"
        THEN /\ pending' = [pending EXCEPT ![k][i] = <<ServerVehicle(vehicle, r)>>]
             /\ UNCHANGED vehicleFixedRoutes
        ELSE /\ pending' = [pending EXCEPT ![k][i] = <<RoutedVehicle(module, vehicle, coordinates)>>]
             /\ vehicleFixedRoutes' = [vehicleFixedRoutes EXCEPT ![vehicle.id] = <<coordinates>>]
  /\ UNCHANGED <<module, calls, lastUpdate, lastCall, snapshot, delivered>>
  /\ UNCHANGED simVars
  /\ UNCHANGED serverVars
  /\ UNCHANGED socketVars
  /\ UNCHANGED geoVars

\* variant: the vehicles that run on the direct-line fallback are left out
PromiseAll_RoutedOnly(promises) ==
  SelectSeq([i \in 1..Len(promises) |-> promises[i][1]],
            LAMBDA vehicle : vehicle.routeCoordinates # DirectLine(vehicle))

\* the array  await Promise.all(vehiclePromises)  yields: the value of every
\* promise, in the order of the promises
PromiseAll(promises) == [i \in 1..Len(promises) |-> promises[i][1]]

\* Promise.all has resolved: start call k binds the collection and creates
\* its interval timer
Resume(k) ==
  /\ k \in DOMAIN pending
  /\ \A i \in 1..Len(pending[k]) : pending[k][i] # <<>>
  /\ simulatedVehicles' = PromiseAll(pending[k])
  /\ simOwner' = k
  /\ simulationInterval' = k
  /\ timers' = timers \cup {k}
  /\ ticks' = 0
  /\ pending' = [c \in DOMAIN pending \ {k} |-> pending[c]]
  /\ snapshot' = Detached
  /\ delivered' = Released
  /\ UNCHANGED <<module, calls, vehicleFixedRoutes, lastUpdate, lastCall>>
  /\ UNCHANGED serverVars
  /\ UNCHANGED socketVars
  /\ UNCHANGED geoVars

\* the interval timer that start call t created fires
Tick(t) ==
  /\ t \in timers
  /\ ticks' = IF ticks < TickCap THEN ticks + 1 ELSE ticks
  /\ LET throwers == Throwers(module, simulatedVehicles)
     IN IF throwers # {}
        THEN /\ simulatedVehicles' =
                  TickAborted(module, simulatedVehicles,
                              CHOOSE j \in throwers : \A i \in throwers : j <= i)
             /\ delivered' = DeliveredAfter(CHOOSE j \in throwers : \A i \in throwers : j <= i, TRUE)
             /\ UNCHANGED <<lastUpdate, clientData, snapshot>>
        ELSE /\ simulatedVehicles' = TickAll(module, simulatedVehicles)
             /\ snapshot' = Retained(simulatedVehicles)
             /\ delivered' = DeliveredAfter(Len(simulatedVehicles), FALSE)
             /\ IF LogThrows(module, simulatedVehicles')
                THEN UNCHANGED <<lastUpdate, clientData>>
                ELSE /\ lastUpdate' = <<[timer |-> t,
                                         client |-> calls[t].client,
                                         owner |-> simOwner,
                                         ids |-> Ids(simulatedVehicles')]>>
                     /\ clientData' =
                          IF calls[t].client \in Clients
                          THEN [clientData EXCEPT ![calls[t].client].vehicles = Ids(simulatedVehicles')]
                          ELSE clientData
  /\ UNCHANGED <<module, simulationInterval, timers, calls, pending, simOwner,
                 vehicleFixedRoutes, conn, sentLocation, lastCall>>
  /\ UNCHANGED socketVars
  /\ UNCHANGED geoVars

\* the directions results drawn when start calls overlap: a failed lookup
\* and a road of two waypoints
OverlapResults == {r \in DirectionsResults : ~r.ok \/ Len(r.coordinates) = 2}

\* the simulator under overlapping start and stop calls, each start for up
\* to OverlapVehicles vehicles; interval callbacks are followed for MaxTicks
\* ticks per collection
StartVehicleSimulation == StartSimulation(OverlapVehicles)

OverlapTick(t) ==
  /\ ticks < MaxTicks
  /\ Tick(t)

Next ==
  \/ StartVehicleSimulation
  \/ StopVehicleSimulation
  \/ \E k \in 1..MaxStarts, i \in 1..OverlapVehicles, r \in OverlapResults : SettleRoute(k, i, r)
  \/ \E k \in 1..MaxStarts : Resume(k)
  \/ \E t \in 1..MaxStarts : OverlapTick(t)

Spec == Init /\ [][Next]_vars

\* one simulation from its start call on: the module's first start call,
\* the route lookups, the interval callbacks without a limit, and stop
FirstStart ==
  /\ calls = <<>>
  /\ StartSimulation(NumVehicles)

NextMotion ==
  \/ FirstStart
  \/ StopVehicleSimulation
  \/ \E k \in 1..MaxStarts, i \in 1..NumVehicles, r \in DirectionsResults : SettleRoute(k, i, r)
  \/ \E k \in 1..MaxStarts : Resume(k)
  \/ \E t \in 1..MaxStarts : Tick(t)

SpecMotion == Init /\ [][NextMotion]_vars

\* a caller's own vehicle objects: the module's first start call is given
\* vehicles with and without a usable location; interval callbacks are
\* followed for MaxTicks ticks
CallerStart ==
  /\ calls = <<>>
  /\ \E vehicles \in CallerFleets(module, NumVehicles) : BeginStart(0, vehicles)
  /\ UNCHANGED serverVars

\* the directions results drawn for a caller's vehicles: a failed lookup and
\* roads of up to two waypoints
CallerResults == {r \in DirectionsResults : Len(r.coordinates) <= 2}

NextCaller ==
  \/ CallerStart
  \/ StopVehicleSimulation
  \/ \E k \in 1..MaxStarts, i \in 1..NumVehicles, r \in CallerResults : SettleRoute(k, i, r)
  \/ \E k \in 1..MaxStarts : Resume(k)
  \/ \E t \in 1..MaxStarts : OverlapTick(t)

SpecCaller == Init /\ [][NextCaller]_vars

\* ------------------------------------------- the client's snapshot reader
\* getSimulatedVehicles: a new array holding the simulator's vehicle objects
getSimulatedVehicles ==
  /\ Len(snapshot) < MaxSnapshots
  /\ snapshot' = Append(snapshot, [j \in 1..Len(simulatedVehicles) |-> TRUE])
  /\ UNCHANGED <<module, calls, pending, vehicleFixedRoutes, lastUpdate, lastCall>>
  /\ UNCHANGED simVars
  /\ UNCHANGED serverVars
  /\ UNCHANGED socketVars
  /\ UNCHANGED delivered
  /\ UNCHANGED geoVars

\* the caller removes the last element of the array it was returned
SnapshotPop ==
  /\ snapshot # <<>>
  /\ Len(snapshot[Len(snapshot)]) > 0
  /\ snapshot' = [snapshot EXCEPT ![Len(snapshot)] = SubSeq(@, 1, Len(@) - 1)]
  /\ UNCHANGED <<module, calls, pending, vehicleFixedRoutes, lastUpdate, lastCall>>
  /\ UNCHANGED simVars
  /\ UNCHANGED serverVars
  /\ UNCHANGED socketVars
  /\ UNCHANGED delivered
  /\ UNCHANGED geoVars

\* the values the caller assigns to a field of a returned vehicle
CallerValues ==
  [progress |-> {FullProgress - PROGRESS_STEP},
   currentRouteIndex |-> {-1, MaxRouteLen},
   direction |-> {-1},
   location |-> {<<0, 0>>},
   fixedRoute |-> {<<>>}]

\* the caller assigns  value  to  field  of element j of the array it was
\* returned last: an assignment on the simulator's own object when the
\* element still is it
SnapshotSet(j, field, value) ==
  /\ snapshot # <<>>
  /\ j \in 1..Len(snapshot[Len(snapshot)])
  /\ simulatedVehicles' = IF snapshot[Len(snapshot)][j]
                          THEN [simulatedVehicles EXCEPT ![j][field] = value]
                          ELSE simulatedVehicles
  /\ UNCHANGED <<module, simulationInterval, timers, simOwner, ticks, calls, pending,
                 vehicleFixedRoutes, lastUpdate, lastCall, snapshot, delivered>>
  /\ UNCHANGED serverVars
  /\ UNCHANGED socketVars
  /\ UNCHANGED geoVars

InitSnapshot ==
  /\ Init
  /\ module = "client"

NextSnapshot ==
  \/ FirstStart
  \/ StopVehicleSimulation
  \/ \E k \in 1..MaxStarts, i \in 1..NumVehicles, r \in OverlapResults : SettleRoute(k, i, r)
  \/ \E k \in 1..MaxStarts : Resume(k)
  \/ \E t \in 1..MaxStarts : OverlapTick(t)
  \/ getSimulatedVehicles
  \/ SnapshotPop
  \/ \E j \in 1..NumVehicles, field \in DOMAIN CallerValues :
        \E value \in CallerValues[field] : SnapshotSet(j, field, value)

SpecSnapshot == InitSnapshot /\ [][NextSnapshot]_vars

\* ------------------------------------------------------ the socket utility
\* what is unchanged by a step of the socket utility that leaves the
\* simulator alone
SimulatorUnchanged ==
  /\ UNCHANGED <<module, calls, pending, vehicleFixedRoutes, lastUpdate, lastCall, snapshot, delivered>>
  /\ UNCHANGED simVars
  /\ UNCHANGED serverVars
  /\ UNCHANGED geoVars

\* socket.connect(): the mock becomes connected at once, a closed real
\* socket starts connecting
ConnectSocket(socket) ==
  IF socket.mock THEN [socket EXCEPT !.state = "connected"]
  ELSE IF socket.state = "closed" THEN [socket EXCEPT !.state = "connecting"]
  ELSE socket

\* variant: disconnect() leaves the socket as it is
Disconnected_StillOpen(socket) == socket

\* socket.disconnect(): the socket is closed and raises no further events
Disconnected(socket) == [socket EXCEPT !.state = "closed"]

\* variant: only a connected instance is reused
ReusesInstance_ConnectedOnly ==
  socketInstance # NullHandle /\ sockets[socketInstance].state = "connected"

\* connectToSocket:  if (socketInstance)  -- the module has a socket to reuse
ReusesInstance == socketInstance # NullHandle

\* connectToSocket:  the URL chosen from connectionAttempts, 0 for
\* SOCKET_SERVER_URL and i for FALLBACK_URLS[i - 1]
ServerUrl ==
  IF connectionAttempts > 0 /\ connectionAttempts <= NumFallbacks THEN connectionAttempts ELSE 0

\* connectToSocket, as a relation on the socket utility's state, while fewer
\* than max sockets have been created
ConnectEffect(max) ==
  IF socketInstance # NullHandle /\ sockets[socketInstance].state = "connected"
  THEN /\ connectionAttempts' = 0
       /\ UNCHANGED <<sockets, socketInstance>>
  ELSE IF ReusesInstance
  THEN /\ sockets' = [sockets EXCEPT ![socketInstance] = ConnectSocket(@)]
       /\ UNCHANGED <<socketInstance, connectionAttempts>>
  ELSE /\ Len(sockets) < max
       /\ sockets' = Append(sockets, [mock |-> FALSE, url |-> ServerUrl,
                                      state |-> "connecting", listening |-> FALSE,
                                      statusListening |-> FALSE])
       /\ socketInstance' = Len(sockets) + 1
       /\ UNCHANGED connectionAttempts

\* a caller calls connectToSocket
Connecting(max) ==
  /\ ConnectEffect(max)
  /\ UNCHANGED <<useMockData, retries, initTimer>>
  /\ SimulatorUnchanged

ConnectToSocket == Connecting(MaxSockets)

\* setTimeout(() => connectToSocket(options), 1000) of the connect_error
\* handler fires
Retrying(max) ==
  /\ retries > 0
  /\ retries' = retries - 1
  /\ ConnectEffect(max)
  /\ UNCHANGED <<useMockData, initTimer>>
  /\ SimulatorUnchanged

RetryTimer == Retrying(MaxSockets)

\* the 'connect' event of real socket s: the handler resets the counter
SocketConnect(s) ==
  /\ s \in DOMAIN sockets
  /\ ~sockets[s].mock
  /\ sockets[s].state = "connecting"
  /\ sockets' = [sockets EXCEPT ![s].state = "connected"]
  /\ connectionAttempts' = 0
  /\ UNCHANGED <<useMockData, socketInstance, retries, initTimer>>
  /\ SimulatorUnchanged

\* the 'connect_error' event of real socket s: the handler counts the
\* attempt and, while fallbacks are left, disconnects the module's socket,
\* forgets it and schedules connectToSocket; a socket that stays goes on
\* reconnecting
SocketConnectError(s) ==
  /\ s \in DOMAIN sockets
  /\ ~sockets[s].mock
  /\ sockets[s].state = "connecting"
  /\ socketInstance # NullHandle
  /\ IF connectionAttempts + 1 <= NumFallbacks
     THEN /\ connectionAttempts' = connectionAttempts + 1
          /\ sockets' = [sockets EXCEPT ![socketInstance] = Disconnected(@)]
          /\ socketInstance' = NullHandle
          /\ retries' = retries + 1
     ELSE /\ connectionAttempts' = 0
          /\ UNCHANGED <<sockets, socketInstance, retries>>
  /\ UNCHANGED <<useMockData, initTimer>>
  /\ SimulatorUnchanged

\* disconnectSocket: disconnects the module's socket when there is one,
\* then stops the simulation (the mock's disconnect stops it as well)
DisconnectSocket ==
  /\ sockets' = IF socketInstance # NullHandle
                THEN [sockets EXCEPT ![socketInstance] = Disconnected(@)]
                ELSE sockets
  /\ StopEffect
  /\ lastCall' = "stop"
  /\ snapshot' = Detached
  /\ delivered' = Released
  /\ UNCHANGED <<module, calls, pending, vehicleFixedRoutes, lastUpdate>>
  /\ UNCHANGED serverVars
  /\ UNCHANGED <<useMockData, socketInstance, connectionAttempts, retries, initTimer>>
  /\ UNCHANGED geoVars

\* sendUserLocation on a connected mock that has a vehicleUpdates listener
\* list: the mock's emit generates the mock vehicles (OverlapVehicles of
\* them here, 5 in the source) and starts the simulation; on a real socket
\* the location goes to the server, without it nothing happens
SendUserLocation ==
  /\ socketInstance # NullHandle
  /\ sockets[socketInstance].state = "connected"
  /\ sockets[socketInstance].mock
  /\ sockets[socketInstance].listening
  /\ \E off \in [1..OverlapVehicles -> RandomOffsets] :
        BeginStart(0, generateVehicles("socket", OverlapVehicles, off))
  /\ UNCHANGED serverVars

\* subscribeToVehicleUpdates: registers the listener on the module's
\* socket; without a socket, and with mock data on, it starts a simulation
\* of generated mock vehicles
SubscribeToVehicleUpdates ==
  IF socketInstance = NullHandle
  THEN /\ useMockData
       /\ \E off \in [1..OverlapVehicles -> RandomOffsets] :
             BeginStart(0, generateVehicles("socket", OverlapVehicles, off))
       /\ UNCHANGED serverVars
  ELSE /\ sockets' = [sockets EXCEPT ![socketInstance].listening = TRUE]
       /\ UNCHANGED <<useMockData, socketInstance, connectionAttempts, retries, initTimer>>
       /\ SimulatorUnchanged

\* the setTimeout of the module initialisation fires: connect() on the
\* module's socket when there is one
MockConnectTimer ==
  /\ initTimer
  /\ initTimer' = FALSE
  /\ sockets' = IF socketInstance # NullHandle
                THEN [sockets EXCEPT ![socketInstance] = ConnectSocket(@)]
                ELSE sockets
  /\ UNCHANGED <<useMockData, socketInstance, connectionAttempts, retries>>
  /\ SimulatorUnchanged

\* the server pushes 'vehicleUpdates' over connected real socket s and the
\* subscribed listener is called with the server's vehicles
ServerPush(s) ==
  /\ s \in DOMAIN sockets
  /\ ~sockets[s].mock
  /\ sockets[s].state = "connected"
  /\ sockets[s].listening
  /\ lastUpdate' = <<[timer |-> NullHandle, client |-> 0, owner |-> NullHandle,
                      ids |-> [i \in 1..OverlapVehicles |-> i - 1]]>>
  /\ UNCHANGED <<module, calls, pending, vehicleFixedRoutes, lastCall, snapshot, delivered>>
  /\ UNCHANGED simVars
  /\ UNCHANGED serverVars
  /\ UNCHANGED socketVars
  /\ UNCHANGED geoVars

\* subscribeToConnectionStatus: registers the connect, disconnect and
\* connect_error handlers on the module's socket; without a socket it
\* registers nothing (a timer reports 'connected' once)
SubscribeToConnectionStatus ==
  /\ socketInstance # NullHandle
  /\ sockets' = [sockets EXCEPT ![socketInstance].statusListening = TRUE]
  /\ UNCHANGED <<useMockData, socketInstance, connectionAttempts, retries, initTimer>>
  /\ SimulatorUnchanged

\* the socket utility is loaded with USE_MOCK_DATA on or off
InitSocket ==
  /\ module = "socket"
  /\ InitSimulator
  /\ useMockData \in BOOLEAN
  /\ InitSocketUtils
  /\ InitGeo

NextSocket ==
  \/ ConnectToSocket
  \/ DisconnectSocket
  \/ SendUserLocation
  \/ SubscribeToVehicleUpdates
  \/ SubscribeToConnectionStatus
  \/ MockConnectTimer
  \/ RetryTimer
  \/ \E s \in 1..MaxSockets : SocketConnect(s)
  \/ \E s \in 1..MaxSockets : SocketConnectError(s)
  \/ \E s \in 1..MaxSockets : ServerPush(s)
  \/ \E k \in 1..MaxStarts, i \in 1..OverlapVehicles, r \in OverlapResults : SettleRoute(k, i, r)
  \/ \E k \in 1..MaxStarts : Resume(k)
  \/ \E t \in 1..MaxStarts : OverlapTick(t)

SpecSocket == InitSocket /\ [][NextSocket]_vars

\* ------------------------------------ the fallback chain of the connection
\* The application connects and subscribes each of its two callbacks once
\* (App initializeApp); the server cannot be reached or answers.
FallbackConnect == Connecting(MaxChain)

FallbackRetry == Retrying(MaxChain)

SubscribeVehiclesOnce ==
  /\ \A s \in DOMAIN sockets : ~sockets[s].listening
  /\ SubscribeToVehicleUpdates

SubscribeStatusOnce ==
  /\ \A s \in DOMAIN sockets : ~sockets[s].statusListening
  /\ SubscribeToConnectionStatus

InitFallback ==
  /\ module = "socket"
  /\ InitSimulator
  /\ useMockData = FALSE
  /\ InitSocketUtils
  /\ InitGeo

NextFallback ==
  \/ FallbackConnect
  \/ FallbackRetry
  \/ SubscribeVehiclesOnce
  \/ SubscribeStatusOnce
  \/ \E s \in 1..MaxChain : SocketConnect(s)
  \/ \E s \in 1..MaxChain : SocketConnectError(s)
  \/ \E s \in 1..MaxChain : ServerPush(s)

SpecFallback == InitFallback /\ [][NextFallback]_vars

\* ------------------------------------------------------------- the server
\* io.on('connection'): a client connects and its closure state is created
Connect(c) ==
  /\ conn[c] = "idle"
  /\ conn' = [conn EXCEPT ![c] = "connected"]
  /\ clientData' = [clientData EXCEPT ![c] = [vehicles |-> <<>>, simulationInterval |-> NullHandle]]
  /\ UNCHANGED <<module, calls, pending, vehicleFixedRoutes, lastUpdate, sentLocation, lastCall,
                 snapshot, delivered>>
  /\ UNCHANGED simVars
  /\ UNCHANGED socketVars
  /\ UNCHANGED geoVars

\* socket.on('userLocation'): generate the vehicles (OverlapVehicles of them
\* here, 5 in the source), emit them, start the simulation with a callback
\* that stores and emits to this client
UserLocation(c) ==
  /\ conn[c] = "connected"
  /\ \E off \in [1..OverlapVehicles -> RandomOffsets] :
       LET vehicles == generateVehicles("server", OverlapVehicles, off)
       IN /\ BeginStart(c, vehicles)
          /\ clientData' = [clientData EXCEPT ![c].vehicles = Ids(vehicles)]
  /\ sentLocation' = sentLocation \cup {c}
  /\ UNCHANGED conn

\* socket.on('disconnect'): clears the interval held in the closure state
\* and the closure's vehicles
Disconnect(c) ==
  /\ conn[c] = "connected"
  /\ conn' = [conn EXCEPT ![c] = "gone"]
  /\ timers' = IF clientData[c].simulationInterval # NullHandle
               THEN timers \ {clientData[c].simulationInterval}
               ELSE timers
  /\ clientData' = [clientData EXCEPT ![c] = [vehicles |-> <<>>, simulationInterval |-> NullHandle]]
  /\ UNCHANGED <<module, simulatedVehicles, simulationInterval, simOwner, ticks, calls,
                 pending, vehicleFixedRoutes, lastUpdate, sentLocation, lastCall, snapshot, delivered>>
  /\ UNCHANGED socketVars
  /\ UNCHANGED geoVars

InitServer ==
  /\ Init
  /\ module = "server"

NextServer ==
  \/ \E c \in Clients : Connect(c)
  \/ \E c \in Clients : UserLocation(c)
  \/ \E c \in Clients : Disconnect(c)
  \/ \E k \in 1..MaxStarts, i \in 1..OverlapVehicles, r \in OverlapResults : SettleRoute(k, i, r)
  \/ \E k \in 1..MaxStarts : Resume(k)
  \/ \E t \in 1..MaxStarts : OverlapTick(t)

SpecServer == InitServer /\ [][NextServer]_vars

\* -------------------------------------------------- a simulation that runs
\* One start call whose simulation is never stopped: the routes resolve in
\* any order and at any time, and once the interval timer exists its
\* callback keeps running (setInterval).
RunStart ==
  /\ calls = <<>>
  /\ StartSimulation(OverlapVehicles)

NextRun ==
  \/ RunStart
  \/ \E k \in 1..MaxStarts, i \in 1..OverlapVehicles, r \in DirectionsResults : SettleRoute(k, i, r)
  \/ \E k \in 1..MaxStarts : Resume(k)
  \/ \E t \in 1..MaxStarts : Tick(t)

SpecRun == Init /\ [][NextRun]_vars /\ WF_vars(\E t \in 1..MaxStarts : Tick(t))

\* ------------------------------------------------- a caller's collection
\* the simulator's collection is one a caller was handed: the initial
\* collection startVehicleSimulation returned (server and client), or the
\* array the latest run of the interval handler passed to onUpdate
Handed ==
  \/ ticks = 0 /\ simOwner # NullHandle /\ module # "socket"
  \/ ticks > 0 /\ lastUpdate # <<>> /\ lastUpdate[1].ids = Ids(simulatedVehicles)

\* the caller keeps the collection it was handed
KeepDelivered ==
  /\ delivered = <<>>
  /\ simulatedVehicles # <<>>
  /\ Handed
  /\ delivered' = [i \in 1..Len(simulatedVehicles) |->
                     [then |-> simulatedVehicles[i], now |-> simulatedVehicles[i], held |-> TRUE]]
  /\ UNCHANGED <<module, calls, pending, vehicleFixedRoutes, lastUpdate, lastCall, snapshot>>
  /\ UNCHANGED simVars
  /\ UNCHANGED serverVars
  /\ UNCHANGED socketVars
  /\ UNCHANGED geoVars

NextDelivered ==
  \/ RunStart
  \/ StopVehicleSimulation
  \/ \E k \in 1..MaxStarts, i \in 1..OverlapVehicles, r \in OverlapResults : SettleRoute(k, i, r)
  \/ \E k \in 1..MaxStarts : Resume(k)
  \/ \E t \in 1..MaxStarts : OverlapTick(t)
  \/ KeepDelivered

SpecDelivered == Init /\ [][NextDelivered]_vars

\* ---------------------------------------------------- measuring distances
\* the coordinates calculateDistance is applied to: even whole degrees, so
\* that half of every difference is a whole number of degrees; antipodal
\* pairs and the poles are among them
Latitudes == {-90, -60, -8, 0, 8, 60, 90}
Longitudes == {-180, -90, 0, 90, 180}

Coordinates == (Latitudes \X Longitudes) \cup {NoLocation}

\* what a step of the geodesy helpers leaves alone
GeoFrame ==
  /\ UNCHANGED <<module, calls, pending, vehicleFixedRoutes, lastUpdate, lastCall, snapshot, delivered>>
  /\ UNCHANGED simVars
  /\ UNCHANGED serverVars
  /\ UNCHANGED socketVars

\* a call of calculateDistance on the pair, in one order of the arguments
\* or on the first coordinate twice
MeasureDistance(order) ==
  /\ distance[order] = Undefined
  /\ distance' = [distance EXCEPT ![order] =
                    IF order = "ab" THEN calculateDistance(coord1, coord2)
                    ELSE IF order = "ba" THEN calculateDistance(coord2, coord1)
                    ELSE calculateDistance(coord1, coord1)]
  /\ UNCHANGED <<coord1, coord2>>
  /\ GeoFrame

InitDistance ==
  /\ module \in Modules
  /\ InitSimulator
  /\ useMockData = FALSE
  /\ InitSocketUtils
  /\ coord1 \in Coordinates
  /\ coord2 \in Coordinates
  /\ distance = [order \in {"ab", "ba", "aa"} |-> Undefined]

NextDistance == \E order \in {"ab", "ba", "aa"} : MeasureDistance(order)

SpecDistance == InitDistance /\ [][NextDistance]_vars

\* ------------------------------------------------------------------ claims
\* a vehicle the tick handler moves: it has a route of at least 2 waypoints
Moving(vehicle) == ~vehicle.fixedRouteIsNull /\ Len(vehicle.fixedRoute) >= 2

\* the copies of the simulator that reverse at the route ends
PingPong == module \in {"server", "client"}

\* this step is one run of an interval handler
TickStep == \E t \in 1..MaxStarts : Tick(t)

\* ticks a vehicle needs for one segment: ceil(1 / 0.01)
TicksPerSegment == FullProgress \div PROGRESS_STEP

\* C1: after any sequence of start and stop calls at most one interval timer
\* is active, and when the latest call was a start and every start has
\* finished resolving, exactly one timer is active and the collection is
\* the one of that latest start.
C1_AtMostOneTimer ==
  /\ Cardinality(timers) <= 1
  /\ (lastCall = "start" /\ DOMAIN pending = {}) =>
        (timers = {Len(calls)} /\ simOwner = Len(calls))

\* C2: once stop has returned, no interval handler runs (and so onUpdate is
\* not invoked) until a later start call.
C2_NoTickAfterStop == [][lastCall = "stop" => ~TickStep]_vars

\* C3: every connected client that has sent userLocation and whose start has
\* finished resolving has an active timer calling back to it, and every
\* update delivered to a client comes from a collection built by a start
\* call of that same client.
C3_ClientKeepsOwnUpdates ==
  /\ \A c \in Clients :
        (/\ conn[c] = "connected"
         /\ c \in sentLocation
         /\ \A k \in DOMAIN pending : calls[k].client # c)
        => \E t \in timers : calls[t].client = c
  /\ lastUpdate # <<>> =>
        (/\ lastUpdate[1].owner \in DOMAIN calls
         /\ calls[lastUpdate[1].owner].client = lastUpdate[1].client)

\* C4: after a client's socket has disconnected no timer started for that
\* client is active and the client's vehicles are dropped.
C4_DisconnectStopsSimulation ==
  \A c \in Clients :
     conn[c] = "gone" =>
        (/\ \A t \in timers : calls[t].client # c
         /\ clientData[c].vehicles = <<>>)

\* C5: in the server and the client every vehicle with a route of at least
\* 2 waypoints has 0 <= currentRouteIndex < route.length, initially and
\* after every tick.
C5_IndexInRange ==
  PingPong =>
    \A i \in DOMAIN simulatedVehicles :
       Moving(simulatedVehicles[i]) =>
          /\ simulatedVehicles[i].currentRouteIndex >= 0
          /\ simulatedVehicles[i].currentRouteIndex < Len(simulatedVehicles[i].fixedRoute)

\* C5 witness: a vehicle on a route of 3 or more waypoints has turned at the
\* far end and is on its way back.
C5_Witness ==
  /\ PingPong
  /\ \E i \in DOMAIN simulatedVehicles :
        /\ Len(simulatedVehicles[i].fixedRoute) >= 3
        /\ simulatedVehicles[i].currentRouteIndex = Len(simulatedVehicles[i].fixedRoute) - 1
        /\ simulatedVehicles[i].direction = -1
        /\ simulatedVehicles[i].progress > 0

\* C6: in the server and the client a tick leaves every routed vehicle's
\* progress in [0,1), and the tick on which the incremented progress reaches
\* 1 advances the index by the direction and resets progress to 0.
C6_ProgressBelowOne ==
  [][(PingPong /\ TickStep) =>
       \A i \in DOMAIN simulatedVehicles :
          Moving(simulatedVehicles[i]) =>
             /\ simulatedVehicles'[i].progress >= 0
             /\ simulatedVehicles'[i].progress < FullProgress
             /\ (simulatedVehicles[i].progress + PROGRESS_STEP >= FullProgress) =>
                   /\ simulatedVehicles'[i].progress = 0
                   /\ simulatedVehicles'[i].currentRouteIndex =
                         simulatedVehicles[i].currentRouteIndex + simulatedVehicles[i].direction]_vars

\* C6 witness: the tick that completed the first segment has just run.
C6_Witness ==
  /\ PingPong
  /\ ticks = TicksPerSegment
  /\ \E i \in DOMAIN simulatedVehicles :
        /\ Moving(simulatedVehicles[i])
        /\ simulatedVehicles[i].progress = 0
        /\ simulatedVehicles[i].currentRouteIndex = 1

\* C7: direction is +1 or -1, and a tick changes it exactly when the tick
\* completes a segment that arrives at index 0 or index route.length - 1.
C7_DirectionFlipsAtEnds ==
  [][(PingPong /\ TickStep) =>
       \A i \in DOMAIN simulatedVehicles :
          Moving(simulatedVehicles[i]) =>
             /\ simulatedVehicles[i].direction \in {1, -1}
             /\ simulatedVehicles'[i].direction \in {1, -1}
             /\ (simulatedVehicles'[i].direction # simulatedVehicles[i].direction) <=>
                   (/\ simulatedVehicles[i].progress + PROGRESS_STEP >= FullProgress
                    /\ simulatedVehicles[i].currentRouteIndex + simulatedVehicles[i].direction
                          \in {0, Len(simulatedVehicles[i].fixedRoute) - 1})]_vars

\* C7 witness: a vehicle is back at index 0 after a round trip on a route of
\* 2 waypoints and its direction is +1 again.
C7_Witness ==
  /\ PingPong
  /\ ticks = 2 * TicksPerSegment
  /\ \E i \in DOMAIN simulatedVehicles :
        /\ Len(simulatedVehicles[i].fixedRoute) = 2
        /\ simulatedVehicles[i].currentRouteIndex = 0
        /\ simulatedVehicles[i].direction = 1

\* C8: on the server a vehicle on a route of n >= 2 waypoints has, after
\* k * ceil(1/s) ticks for 1 <= k <= n-1, currentRouteIndex k and location
\* exactly route[k], with direction +1 when k < n-1 and -1 when k = n-1.
C8_ServerWaypointSchedule ==
  module = "server" =>
    \A i \in DOMAIN simulatedVehicles :
       LET vehicle == simulatedVehicles[i]
           n == Len(vehicle.fixedRoute)
       IN \A k \in 1..(n - 1) :
             ticks = k * TicksPerSegment =>
                /\ vehicle.currentRouteIndex = k
                /\ vehicle.location = <<vehicle.fixedRoute[k + 1][1] * FullProgress,
                                        vehicle.fixedRoute[k + 1][2] * FullProgress>>
                /\ vehicle.direction = IF k < n - 1 THEN 1 ELSE -1

\* C8 witness: a server vehicle on a route of 3 waypoints after
\* 2 * ceil(1/s) ticks, at the last waypoint.
C8_Witness ==
  /\ module = "server"
  /\ ticks = 2 * TicksPerSegment
  /\ \E i \in DOMAIN simulatedVehicles :
        /\ Len(simulatedVehicles[i].fixedRoute) = 3
        /\ simulatedVehicles[i].currentRouteIndex = 2

\* C9: in the client a vehicle whose resolved route is the two-point line
\* [P0, P1] has, after ceil(1/s) ticks, location P1 and direction -1.
C9_ClientTwoPointFlip ==
  module = "client" =>
    \A i \in DOMAIN simulatedVehicles :
       (Len(simulatedVehicles[i].routeCoordinates) = 2 /\ ticks = TicksPerSegment) =>
          /\ simulatedVehicles[i].location =
                <<simulatedVehicles[i].routeCoordinates[2][1] * FullProgress,
                  simulatedVehicles[i].routeCoordinates[2][2] * FullProgress>>
          /\ simulatedVehicles[i].direction = -1

\* C10: every collection passed to an onUpdate callback is the collection of
\* the start call that registered the callback, with one entry per vehicle
\* given to that call, same ids, same order.
C10_UpdateIsOwnCollection ==
  lastUpdate # <<>> =>
    /\ lastUpdate[1].owner = lastUpdate[1].timer
    /\ lastUpdate[1].ids = Ids(calls[lastUpdate[1].timer].vehicles)

\* a vehicle that runs on the direct line between its route's predefined
\* endpoints, which no road of the directions provider equals
FellBack(vehicle) == vehicle.routeCoordinates = DirectLine(vehicle)

\* a directions result that is a failure: null, or no coordinates
Failed(r) == ~r.ok \/ Len(r.coordinates) = 0

\* the vehicles of the bound collection, as given to the start call
Given == calls[simOwner].vehicles

\* C11: the timer of a start call exists (so none of its ticks runs and its
\* onUpdate is not invoked) only when the route resolution of every vehicle
\* of the call has settled; before the first tick no vehicle of the
\* collection has moved, and the first tick steps every routed vehicle.
C11_TicksAfterAllSettled ==
  /\ \A t \in timers : t \notin DOMAIN pending
  /\ lastUpdate # <<>> => lastUpdate[1].timer \notin DOMAIN pending
  /\ (simOwner # NullHandle /\ ticks = 0) =>
        \A i \in DOMAIN simulatedVehicles :
           /\ simulatedVehicles[i].location = Given[i].location
           /\ simulatedVehicles[i].currentRouteIndex = 0
           /\ simulatedVehicles[i].progress \in {0, Undefined}
  /\ (simOwner # NullHandle /\ ticks = 1) =>
        \A i \in DOMAIN simulatedVehicles :
           Moving(simulatedVehicles[i]) =>
              /\ simulatedVehicles[i].progress = (IF PingPong THEN PROGRESS_STEP ELSE NaN)
              /\ simulatedVehicles[i].location # Given[i].location

\* C11 witness: two vehicles whose lookups gave different routes have both
\* taken their first step, on the first tick.
C11_Witness ==
  /\ ticks = 1
  /\ Len(simulatedVehicles) = 2
  /\ Moving(simulatedVehicles[1])
  /\ Moving(simulatedVehicles[2])
  /\ Len(simulatedVehicles[1].routeCoordinates) # Len(simulatedVehicles[2].routeCoordinates)
  /\ simulatedVehicles[1].progress = simulatedVehicles[2].progress
  /\ lastUpdate # <<>>

C13_FailedVehicleStationary ==
  (lastUpdate # <<>> /\ simOwner # NullHandle) =>
     \A i \in DOMAIN simulatedVehicles :
        FellBack(simulatedVehicles[i]) =>
           /\ simulatedVehicles[i].location = Given[i].location
           /\ ~Moving(simulatedVehicles[i])

\* C13 as amended: the promise of a vehicle whose lookup fails (null result
\* or no coordinates) resolves to the vehicle at its initial location with
\* the direct two-point line between its route's predefined endpoints as
\* its route, and in the server and the client every tick puts such a
\* vehicle on that line.
C13_FailedVehicleOnDirectLine ==
  [][/\ \A k \in DOMAIN pending, i \in 1..NumVehicles, r \in DirectionsResults :
          (Failed(r) /\ SettleRoute(k, i, r)) =>
             /\ pending'[k][i][1].id = calls[k].vehicles[i].id
             /\ pending'[k][i][1].location = calls[k].vehicles[i].location
             /\ pending'[k][i][1].routeCoordinates =
                   <<BUS_ROUTES(calls[k].vehicles[i].routeId).startCoordinates,
                     BUS_ROUTES(calls[k].vehicles[i].routeId).endCoordinates>>
             /\ Len(pending'[k][i][1].fixedRoute) >= 2
     /\ (PingPong /\ TickStep) =>
          \A i \in DOMAIN simulatedVehicles :
             FellBack(simulatedVehicles[i]) =>
                LET line == DirectLine(simulatedVehicles[i])
                    location == simulatedVehicles'[i].location
                IN /\ location[1] = line[1][1] * FullProgress
                   /\ location[2] >= line[1][2] * FullProgress
                   /\ location[2] <= line[2][2] * FullProgress]_vars

\* C13 witness: a vehicle whose lookup failed has been delivered to
\* onUpdate away from its initial location, half way along the direct line.
C13_Witness ==
  /\ PingPong
  /\ lastUpdate # <<>>
  /\ \E i \in DOMAIN simulatedVehicles :
        /\ FellBack(simulatedVehicles[i])
        /\ simulatedVehicles[i].progress = FullProgress \div 2
        /\ simulatedVehicles[i].location # Given[i].location

\* C15: as long as the simulation is not stopped, the waypoint sequence a
\* vehicle id follows is the same in every state: no step other than a stop
\* (a start stops first) changes the fixedRoute of a vehicle of the
\* collection.
C15_RouteFixedUntilStop ==
  [][\A i \in DOMAIN simulatedVehicles, j \in DOMAIN simulatedVehicles' :
        simulatedVehicles[i].id = simulatedVehicles'[j].id =>
           simulatedVehicles[i].fixedRoute = simulatedVehicles'[j].fixedRoute]_vars

\* C17: a vehicle is left without a route, and never moved, exactly when
\* its location is missing; a vehicle with a numeric location, latitude 0
\* included, is given a route.
C17_NoRouteIffNoLocation ==
  simOwner # NullHandle =>
     \A i \in DOMAIN simulatedVehicles :
        /\ (Given[i].location = NoLocation) <=> ~Moving(simulatedVehicles[i])
        /\ Given[i].location = NoLocation =>
              simulatedVehicles[i].location = Given[i].location

\* C18: a tick returns a vehicle whose fixedRoute is null or has fewer than
\* 2 waypoints with every field unchanged.
C18_NoRouteUnchanged ==
  [][TickStep =>
       \A i \in DOMAIN simulatedVehicles :
          (simulatedVehicles[i].fixedRouteIsNull \/ Len(simulatedVehicles[i].fixedRoute) < 2) =>
             simulatedVehicles'[i] = simulatedVehicles[i]]_vars

\* C18 witness: a collection with a vehicle on a route of one waypoint and a
\* vehicle without waypoints has been through a tick.
C18_Witness ==
  /\ ticks >= 1
  /\ \E i, j \in DOMAIN simulatedVehicles :
        /\ Len(simulatedVehicles[i].fixedRoute) = 1
        /\ Len(simulatedVehicles[j].fixedRoute) = 0

\* C19: a stop call leaves the timer handle null and the collection empty,
\* and a stop call made when no simulation is running (after a stop, or
\* before any start) changes nothing of the simulator.
C19_StopIdempotent ==
  [][StopVehicleSimulation =>
       /\ simulationInterval' = NullHandle
       /\ simulatedVehicles' = <<>>
       /\ (simulationInterval = NullHandle /\ simulatedVehicles = <<>>) =>
             UNCHANGED <<simulatedVehicles, simulationInterval, timers, calls, pending,
                         vehicleFixedRoutes, lastUpdate>>]_vars

\* C19 witness: the simulator is stopped after a simulation that ran.
C19_Witness ==
  /\ lastCall = "stop"
  /\ lastUpdate # <<>>
  /\ simulationInterval = NullHandle
  /\ simulatedVehicles = <<>>
  /\ timers = {}

\* this step is a change the caller makes to what getSimulatedVehicles
\* returned
CallerStep ==
  \/ SnapshotPop
  \/ \E j \in 1..NumVehicles, field \in DOMAIN CallerValues :
        \E value \in CallerValues[field] : SnapshotSet(j, field, value)

\* C14: a change the caller makes to the array getSimulatedVehicles
\* returned, or to a field of a vehicle in it, leaves the collection the
\* simulator holds, from which every later tick computes and delivers, as
\* it was.
C14_SnapshotIsolated == [][CallerStep => simulatedVehicles' = simulatedVehicles]_vars

\* a vehicle with invalid route data: fewer than 2 waypoints, or a current
\* or next index outside the route
InvalidRouteData(vehicle) ==
  \/ Len(vehicle.fixedRoute) < 2
  \/ vehicle.currentRouteIndex \notin 0..(Len(vehicle.fixedRoute) - 1)
  \/ vehicle.currentRouteIndex + vehicle.direction \notin 0..(Len(vehicle.fixedRoute) - 1)

\* C16: a tick returns a vehicle with invalid route data unchanged, and
\* advances every other routed vehicle of the collection in that same tick.
C16_InvalidVehiclePassedThrough ==
  [][TickStep =>
       /\ \A i \in DOMAIN simulatedVehicles :
             InvalidRouteData(simulatedVehicles[i]) => simulatedVehicles'[i] = simulatedVehicles[i]
       /\ (\E i \in DOMAIN simulatedVehicles : InvalidRouteData(simulatedVehicles[i])) =>
             \A j \in DOMAIN simulatedVehicles :
                ~InvalidRouteData(simulatedVehicles[j]) =>
                   /\ simulatedVehicles'[j].location # simulatedVehicles[j].location
                   /\ simulatedVehicles'[j].progress # simulatedVehicles[j].progress]_vars

C21_DistanceSymmetric ==
  /\ distance["aa"] # Undefined => distance["aa"] = 0
  /\ distance["ab"] # Undefined /\ distance["ba"] # Undefined => distance["ab"] = distance["ba"]

\* C21 witness: two coordinates of different latitude and longitude have
\* been measured in both orders and with themselves, and are a distance
\* apart
C21_Witness ==
  /\ coord1 # NoLocation /\ coord2 # NoLocation
  /\ coord1[1] # coord2[1] /\ coord1[2] # coord2[2]
  /\ coord1[1] # 0 - coord2[1]
  /\ distance["aa"] = 0
  /\ distance["ab"] > 0
  /\ distance["ba"] > 0

\* C22: on consecutive connect_error events the server URLs are tried in
\* the order primary, FALLBACK_URLS[0], ..., FALLBACK_URLS[6], each at most
\* once and each after the failed socket was disconnected and discarded;
\* the failure of the last fallback schedules no further attempt and
\* resets connectionAttempts to 0; a connect resets connectionAttempts to 0
C22_FallbackOrder ==
  [][/\ \A i \in DOMAIN sockets' :
          /\ sockets'[i].url = i - 1
          /\ i < Len(sockets') => sockets'[i].state = "closed"
     /\ \A s \in DOMAIN sockets :
          /\ SocketConnectError(s) /\ connectionAttempts = NumFallbacks =>
               retries' = retries /\ connectionAttempts' = 0
          /\ SocketConnect(s) => connectionAttempts' = 0]_vars

\* the sockets connectToSocket created that are not disconnected
Live(all) == {s \in DOMAIN all : ~all[s].mock /\ all[s].state # "closed"}

\* C23: at most one socket created by connectToSocket is live at any time:
\* a socket is created only when the module holds no instance, an instance
\* is disconnected when it is discarded, and a call made while the fallback
\* retry is pending leaves one live socket
C23_OneLiveSocket ==
  [][/\ Cardinality(Live(sockets')) <= 1
     /\ Len(sockets') > Len(sockets) => socketInstance = NullHandle
     /\ socketInstance # NullHandle /\ socketInstance' # socketInstance =>
          sockets'[socketInstance].state = "closed"]_vars

\* C23 witness: connectToSocket was called while the retry of a failed
\* socket was pending and created the replacement, and the retry is still
\* to fire
C23_Witness ==
  /\ retries > 0
  /\ Len(sockets) = 2
  /\ sockets[1].state = "closed"
  /\ socketInstance = 2
  /\ Live(sockets) = {2}

\* C24: a callback registered with subscribeToConnectionStatus or
\* subscribeToVehicleUpdates before a connection failure is notified (of
\* 'connected', of vehicle updates) when the client later connects on a
\* replacement socket: the connected replacement carries the handlers of
\* every callback registered on a socket before it
C24_CallbacksSurviveFallback ==
  \A s \in DOMAIN sockets : \A e \in 1..(s - 1) :
    ~sockets[s].mock /\ sockets[s].state = "connected" =>
      /\ sockets[e].statusListening => sockets[s].statusListening
      /\ sockets[e].listening => sockets[s].listening

\* C25: in the socket utility's simulator every vehicle with a route of at
\* least 2 waypoints has a numeric progress in [0,1), which is 0 before the
\* first tick, and a location that is a pair of numbers
C25_MockProgressNumeric ==
  module = "socket" =>
    \A i \in DOMAIN simulatedVehicles :
      LET vehicle == simulatedVehicles[i]
      IN HasFixedRoute(vehicle) =>
           /\ vehicle.progress \in 0..(MockFullProgress - 1)
           /\ ticks = 0 => vehicle.progress = 0
           /\ Len(vehicle.location) = 2
           /\ vehicle.location[1] # NaN /\ vehicle.location[2] # NaN

\* vehicle i of the running simulation is bound and has a route of at least
\* 2 waypoints
Runs(i) == i \in DOMAIN simulatedVehicles /\ Moving(simulatedVehicles[i])

\* vehicle i is at waypoint index of its route, progress aside
AtIndex(i, index) == simulatedVehicles[i].currentRouteIndex = index

\* C26: in the socket utility, under fair ticking, a vehicle on a route of
\* n >= 2 waypoints eventually reaches the last waypoint, and the tick
\* after that puts it at index 0 and at its original location
C26_MockReachesEndAndResets ==
  /\ \A i \in 1..OverlapVehicles :
       [](module = "socket" /\ Runs(i) =>
            <>(Runs(i) /\ AtIndex(i, Len(simulatedVehicles[i].fixedRoute) - 1)))
  /\ [][\A i \in 1..OverlapVehicles :
          (/\ module = "socket"
           /\ Runs(i)
           /\ AtIndex(i, Len(simulatedVehicles[i].fixedRoute) - 1)
           /\ TickStep) =>
             /\ simulatedVehicles'[i].currentRouteIndex = 0
             /\ simulatedVehicles'[i].location = simulatedVehicles[i].originalLocation]_vars

\* C30: in the server and the client, under fair ticking, every vehicle
\* with a route of at least 2 waypoints arrives at both ends of its route
\* infinitely often, and currentRouteIndex + direction is inside the route
\* in every state, so the out-of-bounds branch is never taken
C30_BothEndsForever ==
  /\ \A i \in 1..OverlapVehicles :
       /\ [](PingPong /\ Runs(i) => <>(Runs(i) /\ AtIndex(i, 0)))
       /\ [](PingPong /\ Runs(i) =>
               <>(Runs(i) /\ AtIndex(i, Len(simulatedVehicles[i].fixedRoute) - 1)))
  /\ [](PingPong =>
          \A i \in DOMAIN simulatedVehicles :
            Moving(simulatedVehicles[i]) =>
              LET nextIndex == simulatedVehicles[i].currentRouteIndex + simulatedVehicles[i].direction
              IN nextIndex >= 0 /\ nextIndex < Len(simulatedVehicles[i].fixedRoute))

\* C30 witness: a server or client vehicle on a route of at least 3
\* waypoints is at the first waypoint with progress 0 after ticks have
\* run: it has been to the far end and is back, heading forward again
C30_Witness ==
  /\ PingPong
  /\ \E i \in DOMAIN simulatedVehicles :
       /\ Len(simulatedVehicles[i].fixedRoute) >= 3
       /\ simulatedVehicles[i].currentRouteIndex = 0
       /\ simulatedVehicles[i].direction = 1
       /\ simulatedVehicles[i].progress = 0
       /\ ticks > 0

\* the records generateVehicleRoute's results were built into: those of the
\* settled promises of the start calls still suspended, and those bound
Returned ==
  UNION {{pending[k][i][1] : i \in {j \in DOMAIN pending[k] : pending[k][j] # <<>>}} :
           k \in DOMAIN pending}
    \cup {simulatedVehicles[i] : i \in DOMAIN simulatedVehicles}

\* C27: all calls of generateVehicleRoute with the same vehicle id return
\* the same waypoint sequence, whatever the directions provider returns
\* later and however concurrent calls for the id interleave
C27_OneRoutePerId ==
  module # "server" =>
    \A a \in Returned, b \in Returned :
      a.id = b.id => a.routeCoordinates = b.routeCoordinates

\* C28: when start calls overlap, then once all of them have finished
\* resolving routes the collection that is animated and delivered is the
\* one built from the vehicles of the most recent start call, whichever
\* call's resolutions finished last
C28_LatestStartWins ==
  (lastCall = "start" /\ Len(calls) >= 2 /\ DOMAIN pending = {}) =>
     /\ simOwner = Len(calls)
     /\ Ids(simulatedVehicles) = Ids(calls[Len(calls)].vehicles)

\* C29: a collection passed to onUpdate, or returned by start as the initial
\* collection, is not modified by a later tick: the progress,
\* currentRouteIndex, direction and location of its vehicle objects keep the
\* values they had when it was delivered
C29_DeliveredUnmodified ==
  \A i \in DOMAIN delivered :
    /\ delivered[i].now.progress = delivered[i].then.progress
    /\ delivered[i].now.currentRouteIndex = delivered[i].then.currentRouteIndex
    /\ delivered[i].now.direction = delivered[i].then.direction
    /\ delivered[i].now.location = delivered[i].then.location

====
